---- MODULE Spec2Model ----
(***************************************************************************)
(* Model of src/Runge-Kutta.py: the generator runge_kutta(q, f, t0, q0,    *)
(* y0, h), a consumer that pulls elements from it with next(), and the     *)
(* __main__ demonstration that calls it.                                   *)
(*                                                                         *)
(* Python values are tagged: a number (an exact rational n/d; the claims   *)
(* are about exact arithmetic), a callable (named), None (an unbound       *)
(* local), or a raised exception travelling through an expression.         *)
(***************************************************************************)
EXTENDS Integers, Sequences, FiniteSets, TLC

\* ------------------------------------------------------------------ bounds
\* Number of next() calls the test consumer makes on one generator.
MaxPulls == 3

\* ------------------------------------------------------- program constants
\* Number of positional parameters of runge_kutta.
Arity == 6
\* Number of elements islice takes in the demonstration.
DemoCount == 10

\* ------------------------------------------------------------------ values
Abs(x) == IF x < 0 THEN -x ELSE x

RECURSIVE GCD(_, _)
GCD(a, b) == IF b = 0 THEN a ELSE GCD(b, a % b)

\* A number n/d in lowest terms with d > 0.
Num(n, d) ==
    LET g == GCD(Abs(n), Abs(d))
        s == IF d < 0 THEN -1 ELSE 1
    IN  [kind |-> "num", n |-> (s * n) \div g, d |-> (s * d) \div g, name |-> ""]

Int2(n) == Num(n, 1)

\* A callable object.
Fn(name) == [kind |-> "fn", n |-> 0, d |-> 1, name |-> name]

\* A local that has not been assigned yet.
None == [kind |-> "none", n |-> 0, d |-> 1, name |-> ""]

\* An exception raised while evaluating an expression.
Raise(name) == [kind |-> "err", n |-> 0, d |-> 1, name |-> name]

IsNum(v) == v.kind = "num"
IsErr(v) == v.kind = "err"

\* a + b: the left operand is evaluated first, so its exception wins;
\* a non-number operand is an unsupported operand type.
Add(a, b) ==
    IF IsErr(a) THEN a
    ELSE IF IsErr(b) THEN b
    ELSE IF IsNum(a) /\ IsNum(b) THEN Num(a.n * b.d + b.n * a.d, a.d * b.d)
    ELSE Raise("TypeError")

\* a * b
Mul(a, b) ==
    IF IsErr(a) THEN a
    ELSE IF IsErr(b) THEN b
    ELSE IF IsNum(a) /\ IsNum(b) THEN Num(a.n * b.n, a.d * b.d)
    ELSE Raise("TypeError")

\* a / c for a literal integer c # 0 (h/2, h/6)
DivBy(a, c) ==
    IF IsErr(a) THEN a
    ELSE IF IsNum(a) THEN Num(a.n, a.d * c)
    ELSE Raise("TypeError")

\* ------------------------------------------------------ derivative callables
\* The callables a caller passes.  first_arg and five_times are the two
\* lambdas of the demonstration; the others are the right-hand sides a
\* caller may pass: a zero, a constant, t + y, and one that always raises.
FnNames == {"first_arg", "five_times", "zero", "two", "sum", "boom"}

\* The factor in the demonstration's lambda t, q: 5*q.
FiveFactor == 5

\* The body of the callable called name, applied to (a, b).
ApplyFn(name, a, b) ==
    CASE name = "first_arg"  -> a
      [] name = "five_times" -> Mul(Int2(FiveFactor), b)
      [] name = "zero"       -> Int2(0)
      [] name = "two"        -> Int2(2)
      [] name = "sum"        -> Add(a, b)
      [] OTHER               -> Raise("ZeroDivisionError")

\* callee(a, b): the arguments are evaluated before the call is made, and
\* calling an object that is not callable raises TypeError.
Call(callee, a, b) ==
    IF IsErr(a) THEN a
    ELSE IF IsErr(b) THEN b
    ELSE IF callee.kind # "fn" THEN Raise("TypeError")
    ELSE ApplyFn(callee.name, a, b)

\* TRUE when callee(a, b) enters the body of a callable.
Invokes(callee, a, b) == ~IsErr(a) /\ ~IsErr(b) /\ callee.kind = "fn"

\* ---------------------------------------------------------- one loop body
\* The eight stage statements, numbered 1..8 in program order:
\* 1..4 are kq1..kq4 (callee: the local q, second argument built on y),
\* 5..8 are ky1..ky4 (callee: f, second argument built on the local q).
NumStages == 8

StageCallee(i, q, f) == IF i <= 4 THEN q ELSE f

StageBase(i, q, y) == IF i <= 4 THEN y ELSE q

\* The argument pair of stage i; k holds the values of the earlier stages.
StageArgs(i, t, q, y, h, k) ==
    CASE i \in {1, 5} -> <<t, StageBase(i, q, y)>>
      [] i \in {4, 8} -> <<Add(t, h), Add(StageBase(i, q, y), Mul(h, k[i - 1]))>>
      [] OTHER        -> <<Add(t, DivBy(h, 2)),
                           Add(StageBase(i, q, y), Mul(DivBy(h, 2), k[i - 1]))>>

\* The log after stage i: an invocation is recorded with its stage and the
\* arguments the callable received.
LogCall(log, i, callee, a) ==
    IF Invokes(callee, a[1], a[2])
    THEN Append(log, [stage |-> i, a |-> a[1], b |-> a[2]])
    ELSE log

StagesResult(k, log, err) == [k |-> k, log |-> log, err |-> err]

\* Runs stages i..8 in order and stops at the first exception.
\* k: the stage values so far; log: the invocations so far.
RECURSIVE RunStages(_, _, _, _, _, _, _, _)
StageDone(i, q, f, t, y, h, k, log, v) ==
    IF IsErr(v) THEN StagesResult(k, log, v)
    ELSE RunStages(i + 1, q, f, t, y, h, Append(k, v), log)

StageRun(i, q, f, t, y, h, k, log, callee, a) ==
    StageDone(i, q, f, t, y, h, k, LogCall(log, i, callee, a), Call(callee, a[1], a[2]))

RunStages(i, q, f, t, y, h, k, log) ==
    IF i > NumStages THEN StagesResult(k, log, None)
    ELSE StageRun(i, q, f, t, y, h, k, log, StageCallee(i, q, f),
                  StageArgs(i, t, q, y, h, k))

\* k1 + 2*k2 + 2*k3 + k4 for the four stage values starting at k[o + 1].
Weighted(k, o) ==
    Add(Add(Add(k[o + 1], Mul(Int2(2), k[o + 2])), Mul(Int2(2), k[o + 3])), k[o + 4])

\* v + (h/6)*(k1 + 2*k2 + 2*k3 + k4)
Advance(v, h, k, o) == Add(v, Mul(DivBy(h, 6), Weighted(k, o)))

StepResult(q, y, t, log, err) ==
    [q |-> q, y |-> y, t |-> t, log |-> log, err |-> err]

\* The assignments to q, y and t, in that order, after stages that gave r:
\* a local assigned before an exception keeps its new value.
Assign(q, y, t, r, q2, y2, t2) ==
    IF IsErr(r.err) THEN StepResult(q, y, t, r.log, r.err)
    ELSE IF IsErr(q2) THEN StepResult(q, y, t, r.log, q2)
    ELSE IF IsErr(y2) THEN StepResult(q2, y, t, r.log, y2)
    ELSE IF IsErr(t2) THEN StepResult(q2, y2, t, r.log, t2)
    ELSE StepResult(q2, y2, t2, r.log, None)

AssignAfter(q, y, t, h, r) ==
    Assign(q, y, t, r, Advance(q, h, r.k, 0), Advance(y, h, r.k, 4), Add(t, h))

\* The loop body after the yield: the stages, then the assignments.  The
\* result holds the locals after the body, the invocation log and the
\* exception, or None when the body reaches the next yield.
StepBody(q, f, t, y, h) ==
    AssignAfter(q, y, t, h, RunStages(1, q, f, t, y, h, <<>>, <<>>))

\* ------------------------------------------------------------------- state
VARIABLES mode, args, raised, gen, frame, calls, results
\* mode:    "idle" before any call, "test" for a caller's own consumer,
\*          "demo" for the __main__ block
\* args:    the positional arguments of the call to runge_kutta
\* raised:  the exception the call to runge_kutta raised, "" if none
\* gen:     the generator object: "absent", "created" (not started),
\*          "suspended" (at the yield) or "closed" (finished)
\* frame:   the generator's frame: parameters and locals
\* calls:   every invocation of a derivative callable so far
\* results: what each next() on the generator gave the consumer

vars == <<mode, args, raised, gen, frame, calls, results>>

\* What a next() gives: a yielded tuple, a propagated exception, or
\* StopIteration from a finished generator.
Yielded(t, q, y) == [kind |-> "state", t |-> t, q |-> q, y |-> y, err |-> ""]
Fault(e) == [kind |-> "fault", t |-> None, q |-> None, y |-> None, err |-> e.name]
Stop == [kind |-> "stop", t |-> None, q |-> None, y |-> None, err |-> "StopIteration"]

NoFrame ==
    [q |-> None, f |-> None, t0 |-> None, q0 |-> None, y0 |-> None,
     h |-> None, t |-> None, y |-> None]

\* Binding of the positional arguments to (q, f, t0, q0, y0, h); t and y
\* are not bound until the body runs.
Bind(a) ==
    [q |-> a[1], f |-> a[2], t0 |-> a[3], q0 |-> a[4], y0 |-> a[5],
     h |-> a[6], t |-> None, y |-> None]

\* y = y0; q = q0; t = t0
Prologue(fr) == [fr EXCEPT !.y = fr.y0, !.q = fr.q0, !.t = fr.t0]

Resumed(g, fr, log, result) ==
    [gen |-> g, frame |-> fr, log |-> log, result |-> result]

\* The generator after a loop body that gave b: at the yield again with the
\* new locals, or finished by the exception.
AfterBody(fr, b) ==
    IF IsErr(b.err)
    THEN Resumed("closed", [fr EXCEPT !.q = b.q, !.y = b.y, !.t = b.t], b.log,
                 Fault(b.err))
    ELSE Resumed("suspended", [fr EXCEPT !.q = b.q, !.y = b.y, !.t = b.t], b.log,
                 Yielded(b.t, b.q, b.y))

\* The first next(): the prologue, then the yield at the top of the loop.
AtFirstYield(fr) == Resumed("suspended", fr, <<>>, Yielded(fr.t, fr.q, fr.y))

\* The generator with the yield at the end of the loop body instead of its
\* start: the first next() runs a whole step before it yields.
ResumeYieldLast(g, fr) ==
    CASE g = "created" ->
            AfterBody(Prologue(fr),
                      StepBody(fr.q0, fr.f, fr.t0, fr.y0, fr.h))
      [] g = "suspended" ->
            AfterBody(fr, StepBody(fr.q, fr.f, fr.t, fr.y, fr.h))
      [] OTHER -> Resumed("closed", fr, <<>>, Stop)

\* One next() on the generator in state g with frame fr: runs the body from
\* where it stands to the next yield, or to the exception that ends it.
Resume(g, fr) ==
    CASE g = "created" -> AtFirstYield(Prologue(fr))
      [] g = "suspended" ->
            AfterBody(fr, StepBody(fr.q, fr.f, fr.t, fr.y, fr.h))
      [] OTHER -> Resumed("closed", fr, <<>>, Stop)

\* The log entries of one next(), stamped with the index of that next().
Stamp(log, p) ==
    [i \in 1..Len(log) |->
        [pull |-> p, stage |-> log[i].stage, a |-> log[i].a, b |-> log[i].b]]

\* ------------------------------------------------------------------ inputs
T0s == {Int2(0), Int2(1)}
Q0s == {Int2(1), Int2(2)}
Y0s == {Int2(1), Num(1, 10)}
Hs  == {Num(1, 10), Int2(1), Num(-1, 2)}

\* The argument list of the demonstration.
DemoArgs == <<Fn("first_arg"), Fn("five_times"), Int2(0), Int2(1), Num(1, 10)>>

\* ----------------------------------------------------------------- actions
Init ==
    /\ mode = "idle"
    /\ args = <<>>
    /\ raised = ""
    /\ gen = "absent"
    /\ frame = NoFrame
    /\ calls = <<>>
    /\ results = <<>>

\* runge_kutta(*a): a wrong number of positional arguments raises TypeError
\* at the call; otherwise a generator is created and no body code runs.
CallRungeKutta(a, m) ==
    /\ mode = "idle"
    /\ mode' = m
    /\ args' = a
    /\ IF Len(a) = Arity
       THEN /\ gen' = "created"
            /\ frame' = Bind(a)
            /\ raised' = ""
       ELSE /\ gen' = "absent"
            /\ frame' = NoFrame
            /\ raised' = "TypeError"
    /\ UNCHANGED <<calls, results>>

\* A caller constructs a stepper with two callables, t0, q0, y0 and h.
Construct ==
    \E qn \in FnNames, fn \in FnNames, t0 \in T0s, q0 \in Q0s, y0 \in Y0s, h \in Hs :
        CallRungeKutta(<<Fn(qn), Fn(fn), t0, q0, y0, h>>, "test")

\* The __main__ block's call.
Main == CallRungeKutta(DemoArgs, "demo")

\* The number of next() calls the consumer makes at most.
Limit == IF mode = "demo" THEN DemoCount ELSE MaxPulls

\* islice under list() stops at the first exception or StopIteration.
ConsumerGoesOn ==
    mode = "demo" => \A i \in 1..Len(results) : results[i].kind = "state"

\* The consumer receives what the resumed generator gave.
Deliver(r) ==
    /\ gen' = r.gen
    /\ frame' = r.frame
    /\ calls' = calls \o Stamp(r.log, Len(results) + 1)
    /\ results' = Append(results, r.result)

\* next(gen)
Pull ==
    /\ gen # "absent"
    /\ Len(results) < Limit
    /\ ConsumerGoesOn
    /\ Deliver(Resume(gen, frame))
    /\ UNCHANGED <<mode, args, raised>>

Next == Construct \/ Main \/ Pull

Spec == Init /\ [][Next]_vars

\* ------------------------------------------------------------- properties
\* The callables the caller passed, and the other construction inputs.
PassedQ == args[1]
PassedF == args[2]
GivenT0 == args[3]
GivenQ0 == args[4]
GivenY0 == args[5]
GivenH  == args[6]

\* A stepper was constructed by a caller with callables that do not raise.
QuietStepper ==
    /\ mode = "test"
    /\ PassedQ.name # "boom"
    /\ PassedF.name # "boom"

\* The invocations made during next() number p by the stages in S.
CallsIn(p, S) ==
    {n \in 1..Len(calls) : calls[n].pull = p /\ calls[n].stage \in S}

QStages == 1..4
FStages == 5..8

\* One RK4 update of the value v at t under the derivative callable fn:
\* k1 = fn(t, v), k2 = fn(t + h/2, v + (h/2)*k1), k3 = fn(t + h/2,
\* v + (h/2)*k2), k4 = fn(t + h, v + h*k3), result v + (h/6)*(k1 + 2*k2 +
\* 2*k3 + k4).
RK4Update(fn, t, v, h) ==
    LET h2 == DivBy(h, 2)
        k1 == ApplyFn(fn, t, v)
        k2 == ApplyFn(fn, Add(t, h2), Add(v, Mul(h2, k1)))
        k3 == ApplyFn(fn, Add(t, h2), Add(v, Mul(h2, k2)))
        k4 == ApplyFn(fn, Add(t, h), Add(v, Mul(h, k3)))
    IN  Add(v, Mul(DivBy(h, 6),
                   Add(Add(Add(k1, Mul(Int2(2), k2)), Mul(Int2(2), k3)), k4)))

\* C1: every pull after the first returns a state, and that state is the
\* previously yielded one after one RK4 update of each integrated variable
\* under its derivative callable, with t advanced by h.
C1_LaterPullsAreRK4Updates ==
    QuietStepper =>
        \A i \in 2..Len(results) :
            /\ results[i].kind = "state"
            /\ results[i].t = Add(results[i - 1].t, GivenH)
            /\ results[i].q =
                  RK4Update(PassedQ.name, results[i - 1].t, results[i - 1].q, GivenH)
            /\ results[i].y =
                  RK4Update(PassedF.name, results[i - 1].t, results[i - 1].y, GivenH)

\* C2: the first element produced is exactly (t0, q0, y0), and no derivative
\* callable has been invoked after construction or after the first pull.
C2_FirstIsInitialState ==
    /\ (gen = "created" => calls = <<>>)
    /\ (Len(results) >= 1 => results[1] = Yielded(GivenT0, GivenQ0, GivenY0))
    /\ (Len(results) = 1 => calls = <<>>)

\* C2 witness: a first pull has returned on a stepper whose q0 and y0 differ.
C2_FirstPullReturned ==
    /\ mode = "test"
    /\ Len(results) = 1
    /\ results[1].kind = "state"
    /\ gen = "suspended"
    /\ GivenQ0 # GivenY0

\* C3: with callables that never raise, every pull returns a state: the
\* stepper never faults and never ends the sequence on its own.
C3_EveryPullReturnsAState ==
    QuietStepper => \A i \in 1..Len(results) : results[i].kind = "state"

\* C4: the n-th produced t (n counted from 0, the result of pull n + 1)
\* is t0 + n*h, for every step index.
C4_TimeIsT0PlusNH ==
    QuietStepper =>
        \A i \in 1..Len(results) :
            /\ results[i].kind # "fault"
            /\ results[i].kind # "stop"
            /\ results[i].t = Add(GivenT0, Mul(Int2(i - 1), GivenH))

\* C5: in every step, the callable that updates y is evaluated at all four
\* of its stages, and each time the q it receives is the q yielded before
\* the step.
C5_YStagesReceivePreStepQ ==
    QuietStepper =>
        \A i \in 2..Len(results) :
            \A j \in FStages :
                \E n \in CallsIn(i, {j}) : calls[n].b = results[i - 1].q

\* C6: each derivative callable is invoked exactly 4 times in every step
\* after the first produced state and 0 times in the first pull.
C6_FourInvocationsPerStep ==
    QuietStepper =>
        \A i \in 1..Len(results) :
            /\ Cardinality(CallsIn(i, QStages)) = IF i = 1 THEN 0 ELSE 4
            /\ Cardinality(CallsIn(i, FStages)) = IF i = 1 THEN 0 ELSE 4

\* The value a constant callable returns.
ConstantOf(fn) == IF fn = "two" THEN Int2(2) ELSE Int2(0)

IsConstant(fn) == fn \in {"zero", "two"}

\* v0 + c*n*h
Linear(v0, c, n, h) == Add(v0, Mul(c, Mul(Int2(n), h)))

\* C8: a variable whose derivative callable returns the constant c for all
\* arguments has the n-th produced value v0 + c*n*h, for every n >= 0.
C8_ConstantDerivativeIsLinear ==
    QuietStepper =>
        \A i \in 1..Len(results) :
            /\ IsConstant(PassedF.name) =>
                  results[i].y =
                      Linear(GivenY0, ConstantOf(PassedF.name), i - 1, GivenH)
            /\ IsConstant(PassedQ.name) =>
                  results[i].q =
                      Linear(GivenQ0, ConstantOf(PassedQ.name), i - 1, GivenH)

\* The demonstration has nothing left to do.
DemoDone ==
    /\ mode = "demo"
    /\ \/ gen = "absent"
       \/ Len(results) >= DemoCount
       \/ ~ConsumerGoesOn

\* C9: the demonstration's call constructs the stepper without a fault, and
\* when it is done it holds exactly 10 triples, the first with t = 0.
C9_DemoYieldsTenTriples ==
    mode = "demo" =>
        /\ raised = ""
        /\ DemoDone =>
              /\ Len(results) = DemoCount
              /\ \A i \in 1..Len(results) : results[i].kind = "state"
              /\ results[1].t = Int2(0)

\* The increment (h/6)*(k1 + 2*k2 + 2*k3 + k4) of a variable driven by fn
\* whose stages are built on the pre-step value w of the other variable.
CrossIncrement(fn, t, w, h) ==
    LET h2 == DivBy(h, 2)
        k1 == ApplyFn(fn, t, w)
        k2 == ApplyFn(fn, Add(t, h2), Add(w, Mul(h2, k1)))
        k3 == ApplyFn(fn, Add(t, h2), Add(w, Mul(h2, k2)))
        k4 == ApplyFn(fn, Add(t, h), Add(w, Mul(h, k3)))
    IN  Mul(DivBy(h, 6),
            Add(Add(Add(k1, Mul(Int2(2), k2)), Mul(Int2(2), k3)), k4))

\* C10: in every step the new q and the new y are both computed from the
\* pre-step t, q and y only: the produced q is the old q plus the increment
\* of the stages kq1..kq4 built on the old y, and the produced y is the old
\* y plus the increment of the stages ky1..ky4 built on the old q, whichever
\* of the two is assigned first.
C10_BothUpdatesUsePreStepState ==
    QuietStepper =>
        \A i \in 2..Len(results) :
            /\ results[i].kind = "state"
            /\ results[i].q =
                  Add(results[i - 1].q,
                      CrossIncrement(PassedQ.name, results[i - 1].t,
                                     results[i - 1].y, GivenH))
            /\ results[i].y =
                  Add(results[i - 1].y,
                      CrossIncrement(PassedF.name, results[i - 1].t,
                                     results[i - 1].q, GivenH))

====
